---- MODULE Spec2Model ----
(***************************************************************************)
(* FinanzQuest: the role table, the privileged stored procedures and the   *)
(* budget tables of dbinit/admin.sql, as a state machine over the database *)
(* rows.  One action per stored procedure call; a call that raises leaves  *)
(* every table as it was (PostgreSQL rolls the statement back) and records *)
(* the error in `last`.                                                    *)
(***************************************************************************)
EXTENDS Integers, Sequences, FiniteSets, TLC

\* ---------------------------------------------------------------- bounds
MaxCash == 2
MaxAmount == 2
MaxTx == 1
MaxPlans == 2
MaxPositions == 2
CashStart == 1

\* ------------------------------------------------------------- universes
\* rows of auth.users
Users == {"u1", "u2"}

\* CREATE TYPE users.special_role AS ENUM ('admin', 'teacher')
special_role == {"admin", "teacher"}

\* the session of the database superuser: current_user = 'postgres', no JWT
postgres == "postgres"

\* a session of role authenticated whose JWT carries no sub: auth.uid() IS NULL
NoUid == "no_uid"

Callers == Users \cup {postgres, NoUid}

\* the role that executed admin.sql and therefore owns its functions and tables
Owners == {"postgres", "supabase_admin"}

\* ids of the rows of depots.depots
DepotIds == {1, 2}

\* depot ids a call may name: those of the rows and one that names no row
DepotArgs == DepotIds \cup {3}

\* reward amounts: one that takes cash away and one that adds
Amounts == {-MaxAmount, 1}

VARIABLES
    definer,               \* owner of the SECURITY DEFINER functions
    special_roles,         \* users.special_roles: set of <<user_id, user_role>>
    is_super_admin,        \* auth.users.is_super_admin, per user
    depots,                \* depots.depots: id -> [cash, cash_start, users]
    transactions,          \* depots.transactions: sequence of [depot_id, cash_delta]
    savings_plans_budget,  \* depots.savings_plans_budget: depot_id -> budget
    savings_plans,         \* depots.savings_plans: set of [id, depot_id, worth, period]
    positions,             \* depots.positions: set of [id, depot_id, asset_id, amount]
    values,                \* depots.values: set of [depot_id, age, total]
    buys,                  \* the buy each session has in flight, and where it stands
    locked,                \* ids of the depot rows a transaction holds locked
    calls,                 \* the statement each session has in flight
    row_locks,             \* <<table, id>> of the rows an open statement wrote
    ui,                    \* the admin and savings plan tables' React state
    last                   \* what the last call returned to its caller

vars == <<definer, special_roles, is_super_admin, depots, transactions,
          savings_plans_budget, savings_plans, positions, values, buys, locked,
          calls, row_locks, ui, last>>

roleVars == <<special_roles, is_super_admin>>
depotVars == <<depots, transactions>>
budgetVars == <<savings_plans_budget, savings_plans>>
holdingVars == <<positions, values>>
sessionVars == <<buys, locked, calls, row_locks>>
stmtVars == <<calls, row_locks>>

\* the database sessions that run a buy, and a session that runs none
Sessions == {"s1", "s2", "scheduler"}

NoBuys == [s \in Sessions |-> [pc |-> "idle", depot_id |-> 0, cost |-> 0, cash |-> 0]]

\* the sessions of the API, and none of them with a statement in flight
WebSessions == Sessions \ {"scheduler"}

NoCalls ==
    [s \in WebSessions |->
       [pc |-> "idle", caller |-> "no_uid", depot_id |-> 0, arg |-> 0, staged |-> 0]]

\* the record a call leaves for its caller: the operation, the caller, the
\* user or depot it named, the outcome and the number of rows it touched
Ret(op, c, arg, result, rows) ==
    [op |-> op, caller |-> c, arg |-> arg, result |-> result, rows |-> rows]

NoCall == Ret("none", postgres, 0, "ok", 0)

\* SQL NULL, and a non-null numeric value n: a set of at most one number
NULL == {}
Num(n) == {n}

\* ------------------------------------------------------- authorization
\* users.has_role: FALSE without a uid, else a row (uid, required_role) exists
has_role(c, required_role) ==
    IF c \notin Users
    THEN FALSE
    ELSE <<c, required_role>> \in special_roles

\* users.has_any_role: FALSE without a uid, else a row (uid, r) exists, r among the roles
has_any_role(c, required_roles) ==
    IF c \notin Users
    THEN FALSE
    ELSE \E r \in required_roles : <<c, r>> \in special_roles

\* current_user as the body of a function sees it: the session role in a
\* SECURITY INVOKER function, the function's owner in a SECURITY DEFINER one
current_user(c, security_definer) ==
    IF security_definer
    THEN definer
    ELSE IF c = postgres THEN "postgres" ELSE "authenticated"

\* row-level security does not apply to the superuser session, nor to the
\* table owner inside a SECURITY DEFINER function
bypass_rls(c, security_definer) ==
    security_definer \/ c = postgres

\* ------------------------------------------------------------ role API
\* a role table without a primary key: no INSERT hits an existing key
primary_key_absent(roles, u, r) ==
    FALSE

\* PRIMARY KEY(user_id, user_role): an INSERT of a pair the table holds fails
primary_key_violation(roles, u, r) ==
    <<u, r>> \in roles

\* users.grant_role (SECURITY INVOKER): the INSERT is subject to the policy
\* "Admins can insert roles", then to the primary key (user_id, user_role)
grant_role(c, u, r) ==
    /\ IF ~(bypass_rls(c, FALSE) \/ has_role(c, "admin"))
       THEN /\ last' = Ret("grant_role", c, u, "rls_violation", 0)
            /\ UNCHANGED roleVars
       ELSE IF primary_key_violation(special_roles, u, r)
       THEN /\ last' = Ret("grant_role", c, u, "unique_violation", 0)
            /\ UNCHANGED roleVars
       ELSE /\ special_roles' = special_roles \cup {<<u, r>>}
            /\ last' = Ret("grant_role", c, u, "ok", 1)
            /\ UNCHANGED is_super_admin
    /\ UNCHANGED <<definer, ui, holdingVars, sessionVars, depotVars, budgetVars>>

\* the rows the DELETE of users.revoke_role removes: under the policy "Admins
\* can delete roles" a caller who is not admin sees no row to delete
revoke_role_rows(c, u, r) ==
    IF bypass_rls(c, FALSE) \/ has_role(c, "admin")
    THEN {<<u, r>>} \cap special_roles
    ELSE {}

\* users.revoke_role (SECURITY INVOKER): no check of its own, returns VOID
revoke_role(c, u, r) ==
    /\ special_roles' = special_roles \ revoke_role_rows(c, u, r)
    /\ last' = Ret("revoke_role", c, u, "ok", Cardinality(revoke_role_rows(c, u, r)))
    /\ UNCHANGED <<definer, ui, holdingVars, sessionVars, is_super_admin, depotVars, budgetVars>>

\* the check at the head of grant_teacher, revoke_teacher and get_admin_overview,
\* all three SECURITY DEFINER
admin_or_teacher(c) ==
    has_any_role(c, {"admin", "teacher"}) \/ current_user(c, TRUE) = "postgres"

\* UPDATE auth.users SET is_super_admin = true  (no WHERE clause)
grant_teacher_flags(u) ==
    [x \in Users |-> TRUE]

\* users.grant_teacher (SECURITY DEFINER)
grant_teacher(c, u) ==
    /\ IF ~admin_or_teacher(c)
       THEN /\ last' = Ret("grant_teacher", c, u, "Unauthorized", 0)
            /\ UNCHANGED roleVars
       ELSE IF primary_key_violation(special_roles, u, "teacher")
       THEN /\ last' = Ret("grant_teacher", c, u, "unique_violation", 0)
            /\ UNCHANGED roleVars
       ELSE /\ special_roles' = special_roles \cup {<<u, "teacher">>}
            /\ is_super_admin' = grant_teacher_flags(u)
            /\ last' = Ret("grant_teacher", c, u, "ok", 1)
    /\ UNCHANGED <<definer, ui, holdingVars, sessionVars, depotVars, budgetVars>>

\* a DELETE without the condition on user_role
revoke_teacher_roles_all(roles, u) ==
    {row \in roles : row[1] # u}

\* DELETE FROM users.special_roles WHERE user_id = p_user_id AND user_role = 'teacher'
revoke_teacher_roles(roles, u) ==
    roles \ {<<u, "teacher">>}

\* users.revoke_teacher (SECURITY DEFINER)
revoke_teacher(c, u) ==
    /\ IF ~admin_or_teacher(c)
       THEN /\ last' = Ret("revoke_teacher", c, u, "Unauthorized", 0)
            /\ UNCHANGED roleVars
       ELSE /\ special_roles' = revoke_teacher_roles(special_roles, u)
            /\ is_super_admin' = [is_super_admin EXCEPT ![u] = FALSE]
            /\ last' = Ret("revoke_teacher", c, u, "ok",
                           Cardinality(special_roles \cap {<<u, "teacher">>}))
    /\ UNCHANGED <<definer, ui, holdingVars, sessionVars, depotVars, budgetVars>>

\* ids of the rows of depots.transactions (the ledger-assigned id is the place
\* in the sequence) and of depots.positions that belong to depot d
transactions_of(d) == {i \in 1..Len(transactions) : transactions[i].depot_id = d}
positions_of(d) == {p.id : p \in {q \in positions : q.depot_id = d}}

\* x LEFT JOIN y ON ...: the matching rows of y, or one null-extended row
left_join(matches) ==
    IF matches = {} THEN {NULL} ELSE {Num(x) : x \in matches}

\* COUNT(col) over the rows of a group: every row whose col is not NULL counts
count_all(rows, col) ==
    Cardinality({r \in rows : r[col] # NULL})

\* COUNT(DISTINCT col) over the rows of a group
count_distinct(rows, col) ==
    Cardinality({r[col] : r \in rows} \ {NULL})

\* FROM auth.users au LEFT JOIN depots d ON au.id = ANY(d.users)
\* LEFT JOIN positions p ON d.id = p.depot_id
\* LEFT JOIN transactions t ON d.id = t.depot_id: the rows of the group of u
admin_overview_join(u) ==
    UNION {[d : {dn},
            p : left_join(UNION {positions_of(x) : x \in dn}),
            t : left_join(UNION {transactions_of(x) : x \in dn})] :
             dn \in left_join({x \in DOMAIN depots : u \in depots[x].users})}

admin_overview_row(u) ==
    [id |-> u,
     depot_count |-> count_distinct(admin_overview_join(u), "d"),
     position_count |-> count_distinct(admin_overview_join(u), "p"),
     transaction_count |-> count_distinct(admin_overview_join(u), "t")]

\* users.get_admin_overview (SECURITY DEFINER, STABLE): one row per user
get_admin_overview(c) ==
    /\ IF ~admin_or_teacher(c)
       THEN last' = Ret("get_admin_overview", c, 0, "Unauthorized", 0)
       ELSE last' = Ret("get_admin_overview", c, 0, "ok",
                        Cardinality({admin_overview_row(u) : u \in Users}))
    /\ UNCHANGED <<definer, ui, holdingVars, sessionVars, roleVars, depotVars, budgetVars>>

\* FROM depots d LEFT JOIN transactions dt ON dt.depot_id = d.id
\* LEFT JOIN positions dp ON dp.depot_id = d.id: the rows of the group of d
depot_overview_join(d) ==
    [dt : left_join(transactions_of(d)), dp : left_join(positions_of(d))]

depot_overview_row(d) ==
    [id |-> d,
     cash |-> depots[d].cash,
     cash_start |-> depots[d].cash_start,
     transaction_count |-> count_distinct(depot_overview_join(d), "dt"),
     position_count |-> count_distinct(depot_overview_join(d), "dp"),
     all_ids |-> depots[d].users,
     monthly_budget |-> IF d \in DOMAIN savings_plans_budget
                        THEN Num(savings_plans_budget[d]) ELSE NULL]

\* the rows users.get_depot_overview hands to caller c, or the error it raises:
\* after the check every row of depots.depots is returned, whoever its users are
get_depot_overview_result(c) ==
    IF ~admin_or_teacher(c)
    THEN [result |-> "Unauthorized", ids |-> {}, rows |-> {}]
    ELSE [result |-> "ok", ids |-> DOMAIN depots,
          rows |-> {depot_overview_row(d) : d \in DOMAIN depots}]

\* depots.get_depot_overview (SECURITY DEFINER, STABLE)
get_depot_overview(c) ==
    /\ last' = Ret("get_depot_overview", c, 0, get_depot_overview_result(c).result,
                   Cardinality(get_depot_overview_result(c).rows))
    /\ UNCHANGED <<definer, ui, holdingVars, sessionVars, roleVars, depotVars, budgetVars>>

\* ----------------------------------------------------- depots and cash
\* the check as its error message words it: admin or teacher
grant_reward_check_admin(c) ==
    has_any_role(c, {"admin", "teacher"}) \/ current_user(c, FALSE) = "postgres"

\* the check at the head of depots.grant_reward (SECURITY INVOKER): the
\* teacher role only, or the superuser session
grant_reward_check(c) ==
    has_any_role(c, {"teacher"}) \/ current_user(c, FALSE) = "postgres"

\* an update that skips a reward which would leave the cash negative
grant_reward_update_floor(d, a) ==
    IF d \in DOMAIN depots /\ depots[d].cash + a >= 0
    THEN [depots EXCEPT ![d].cash = @ + a]
    ELSE depots

\* the UPDATE without its WHERE clause: every depot gets the amount
grant_reward_update_all(d, a) ==
    [x \in DOMAIN depots |-> [depots[x] EXCEPT !.cash = @ + a]]

\* UPDATE depots.depots SET cash = cash + p_amount WHERE id = p_depot_id
grant_reward_update(d, a) ==
    IF d \in DOMAIN depots
    THEN [depots EXCEPT ![d].cash = @ + a]
    ELSE depots

\* depots.grant_reward: writes depots.depots only, no row of depots.transactions
grant_reward(c, d, a) ==
    /\ d \in DOMAIN depots => depots[d].cash + a \in (-MaxCash)..MaxCash
    /\ IF ~grant_reward_check(c)
       THEN /\ last' = Ret("grant_reward", c, d, "Unauthorized", 0)
            /\ UNCHANGED depots
       ELSE /\ depots' = grant_reward_update(d, a)
            /\ last' = Ret("grant_reward", c, d, "ok",
                           IF d \in DOMAIN depots THEN 1 ELSE 0)
    /\ UNCHANGED <<definer, ui, holdingVars, sessionVars, roleVars, transactions, budgetVars>>

\* cash deltas of one unit bought (-1) or sold (+1)
TxDeltas == {-1, 1}

\* the ledger append of the specification (4.2, 4.3): a member's buy or sell
\* adds one transaction row and moves the cash by its delta, never below zero
createTransaction(c, d, delta) ==
    /\ Len(transactions) < MaxTx
    /\ d \in DOMAIN depots
    /\ c \in depots[d].users
    /\ depots[d].cash + delta \in 0..MaxCash
    /\ depots' = [depots EXCEPT ![d].cash = @ + delta]
    /\ transactions' = Append(transactions, [depot_id |-> d, cash_delta |-> delta])
    /\ last' = Ret("createTransaction", c, d, "ok", 1)
    /\ UNCHANGED <<definer, ui, holdingVars, sessionVars, roleVars, budgetVars>>

\* the lazy replay: the sum of the cash deltas of depot d's first n ledger rows
RECURSIVE LedgerSum(_, _)
LedgerSum(d, n) ==
    IF n = 0
    THEN 0
    ELSE LedgerSum(d, n - 1)
         + (IF transactions[n].depot_id = d THEN transactions[n].cash_delta ELSE 0)

\* ------------------------------------------------------------ budgets
\* budgets a teacher sets, and the worths of savings plans
Budgets == {0, 250}
Worths == {100, 200}

\* the frequencies of a savings plan
Periods == {"weekly", "biweekly", "monthly", "quarterly", "yearly"}

\* write policies that also admit the members of the depot, as the read policy does
budget_write_policy_member(c, d) ==
    has_role(c, "teacher") \/ (d \in DOMAIN depots /\ c \in depots[d].users)

\* the row-level policies of depots.savings_plans_budget for INSERT and UPDATE:
\* "Teachers can grant budget", "Teachers can update all budgets"
budget_write_policy(c, d) ==
    has_role(c, "teacher")

\* INSERT ... ON CONFLICT (depot_id) DO NOTHING: an existing row keeps its budget
budget_upsert_nothing(budget, d, b) ==
    [x \in DOMAIN budget \cup {d} |-> IF x \in DOMAIN budget THEN budget[x] ELSE b]

\* INSERT ... ON CONFLICT (depot_id) DO UPDATE SET budget = EXCLUDED.budget
budget_upsert(budget, d, b) ==
    [x \in DOMAIN budget \cup {d} |-> IF x = d THEN b ELSE budget[x]]

\* depots.change_budget (SECURITY INVOKER): INSERT ... ON CONFLICT (depot_id) DO
\* UPDATE; the policies are checked first, then the foreign key to depots.depots
change_budget(c, d, b) ==
    /\ IF ~(bypass_rls(c, FALSE) \/ budget_write_policy(c, d))
       THEN /\ last' = Ret("change_budget", c, d, "rls_violation", 0)
            /\ UNCHANGED savings_plans_budget
       ELSE IF d \notin DOMAIN depots
       THEN /\ last' = Ret("change_budget", c, d, "foreign_key_violation", 0)
            /\ UNCHANGED savings_plans_budget
       ELSE /\ savings_plans_budget' = budget_upsert(savings_plans_budget, d, b)
            /\ last' = Ret("change_budget", c, d, "ok", 1)
    /\ UNCHANGED <<definer, ui, holdingVars, sessionVars, roleVars, depotVars, savings_plans>>

\* numerics of the budget overview are kept as multiples of 1/PerMonthDen
PerMonthDen == 3000

\* depots.sp_to_per_month: occurrences per month of a frequency (weekly 4.345,
\* biweekly 2.17, monthly 1, quarterly 1/3, yearly 1/12), times PerMonthDen
sp_to_per_month(period) ==
    CASE period = "weekly" -> 13035
      [] period = "biweekly" -> 6510
      [] period = "monthly" -> 3000
      [] period = "quarterly" -> 1000
      [] period = "yearly" -> 250

\* the savings plans the LEFT JOIN finds for a budget row
joined_plans(d) == {p \in savings_plans : p.depot_id = d}

\* SUM(dsp.worth * depots.sp_to_per_month(dsp.period)) over a group: NULL when
\* the group holds only the null-extended row of the LEFT JOIN
RECURSIVE sum_expenses(_)
sum_expenses(plans) ==
    IF plans = {}
    THEN NULL
    ELSE LET p == CHOOSE x \in plans : TRUE
             rest == sum_expenses(plans \ {p})
             term == p.worth * sp_to_per_month(p.period)
         IN  IF rest = NULL
             THEN Num(term)
             ELSE Num(term + CHOOSE n \in rest : TRUE)

\* dsb.budget - SUM(...): NULL when the sum is NULL
minus(budget, sum) ==
    IF sum = NULL
    THEN NULL
    ELSE Num(budget * PerMonthDen - CHOOSE n \in sum : TRUE)

\* the view depots.savings_plans_budget_overview: one row per budget row
savings_plans_budget_overview ==
    {[depot_id |-> d,
      budget |-> savings_plans_budget[d],
      monthly_expenses |-> sum_expenses(joined_plans(d)),
      remaining_budget |-> minus(savings_plans_budget[d], sum_expenses(joined_plans(d)))]
       : d \in DOMAIN savings_plans_budget}

\* SELECT * FROM depots.savings_plans_budget_overview
select_budget_overview(c) ==
    /\ last' = Ret("select_budget_overview", c, 0, "ok",
                   Cardinality(savings_plans_budget_overview))
    /\ UNCHANGED <<definer, ui, holdingVars, sessionVars, roleVars, depotVars, budgetVars>>

\* ------------------------------------------------- valuation and dashboard
\* days before now at which a valuation snapshot may lie, and snapshot totals
SnapshotAges == {0, 1, 30, 365}
Totals == {1, 2}

\* the horizons of the three deltas, in days before now
Horizons == [diff_1d |-> 1, diff_1m |-> 30, diff_1y |-> 365]

\* the snapshots of depot d, and the one of least age among a set of them
values_of(d) == {v \in values : v.depot_id = d}
nearest(snapshots) == CHOOSE v \in snapshots : \A w \in snapshots : v.age <= w.age

\* the delta over horizon h of the specification (4.4): the latest value minus
\* the snapshot nearest now - h among those at or before it, NULL without one
diff(d, h) ==
    IF {v \in values_of(d) : v.age >= Horizons[h]} = {}
    THEN NULL
    ELSE Num(nearest(values_of(d)).total
             - nearest({v \in values_of(d) : v.age >= Horizons[h]}).total)

\* depots.aggregated_values WHERE depot_id = d: no row without a snapshot
aggregated_values(d) ==
    IF values_of(d) = {}
    THEN {}
    ELSE {[depot_id |-> d,
           total |-> Num(nearest(values_of(d)).total),
           diff_1d |-> diff(d, "diff_1d"),
           diff_1m |-> diff(d, "diff_1m"),
           diff_1y |-> diff(d, "diff_1y"),
           cash |-> Num(depots[d].cash)]}

\* d?.col with d = depotAggValues?.at(0): the column of the first row, NULL
\* (undefined or null) when there is no row or the column is null
display_nullable(rows, col) ==
    IF rows = {} THEN NULL ELSE (CHOOSE r \in rows : TRUE)[col]

\* d?.col ?? 0: the number of the column, and 0 in place of a missing one
display(rows, col) ==
    IF rows = {} \/ display_nullable(rows, col) = NULL
    THEN Num(0)
    ELSE display_nullable(rows, col)

\* the displays Page passes to HeaderStat for depot d
displays(d) ==
    [Depotwert |-> display(aggregated_values(d), "total"),
     Heute |-> display(aggregated_values(d), "diff_1d"),
     Monat |-> display(aggregated_values(d), "diff_1m"),
     Jahr |-> display(aggregated_values(d), "diff_1y"),
     Cash |-> display(aggregated_values(d), "cash")]

\* the dashboard page of user c for depot d: an error card when the select on
\* depots.depots yields no row, else the header with the five displays
Page(c, d) ==
    /\ IF d \notin DOMAIN depots
          \/ ~(c \in depots[d].users \/ has_role(c, "teacher"))
       THEN last' = Ret("Page", c, d, "Depot not found", 0)
       ELSE last' = Ret("Page", c, d, "ok", Cardinality(aggregated_values(d)))
    /\ UNCHANGED <<definer, ui, holdingVars, sessionVars, roleVars, depotVars, budgetVars>>

\* ---------------------------------------------------------- depot removal
\* "Teachers can delete Depots": FOR DELETE USING (users.has_role('teacher'))
delete_depot_policy(c) ==
    has_role(c, "teacher")

\* a budget table whose foreign key lets the row of a removed depot stay
budget_on_delete_keep(budget, d) ==
    budget

\* depot_id REFERENCES depots.depots(id) ON DELETE CASCADE
budget_on_delete(budget, d) ==
    [x \in DOMAIN budget \ {d} |-> budget[x]]

\* deleteDepot of the admin depot table: DELETE FROM depots.depots WHERE id = d
\* as the caller.  A row the policy hides is not deleted and nothing is
\* reported; the rows that reference a deleted depot go with it.
deleteDepot(c, d) ==
    /\ IF d \in DOMAIN depots /\ (bypass_rls(c, FALSE) \/ delete_depot_policy(c))
       THEN /\ depots' = [x \in DOMAIN depots \ {d} |-> depots[x]]
            /\ savings_plans_budget' = budget_on_delete(savings_plans_budget, d)
            /\ transactions' = SelectSeq(transactions, LAMBDA t : t.depot_id # d)
            /\ positions' = {q \in positions : q.depot_id # d}
            /\ savings_plans' = {sp \in savings_plans : sp.depot_id # d}
            /\ values' = {v \in values : v.depot_id # d}
            /\ last' = Ret("deleteDepot", c, d, "ok", 1)
       ELSE /\ last' = Ret("deleteDepot", c, d, "ok", 0)
            /\ UNCHANGED <<depotVars, budgetVars, holdingVars>>
    /\ UNCHANGED <<definer, ui, roleVars, sessionVars>>

\* ------------------------------------------- teachers and the ledger tables
Commands == {"SELECT", "INSERT", "UPDATE", "DELETE"}

\* policies that give teachers every command on every table
teacher_policies_all ==
    [t \in {"depots", "positions", "transactions", "savings_plans", "special_roles"} |->
       Commands]

\* the commands the teacher policies of admin.sql admit, table by table
teacher_policies ==
    [depots |-> {"SELECT", "UPDATE", "INSERT", "DELETE"},
     positions |-> {"SELECT"},
     transactions |-> {"SELECT"},
     savings_plans |-> {"SELECT"},
     special_roles |-> {"SELECT"}]

\* a statement on depots.transactions or depots.positions that user c, who is
\* not among the users of depot d, runs through the API on the rows of d: only
\* the teacher policies can admit it.  A refused INSERT is an error, a refused
\* SELECT, UPDATE or DELETE sees no row.
teacher_dml(c, d, t, cmd) ==
    /\ d \in DOMAIN depots
    /\ c \in Users \ depots[d].users
    /\ IF ~(has_role(c, "teacher") /\ cmd \in teacher_policies[t])
       THEN /\ last' = Ret("dml", c, d, IF cmd = "INSERT" THEN "rls_violation" ELSE "ok", 0)
            /\ UNCHANGED <<transactions, positions>>
       ELSE /\ last' = Ret("dml", c, d, "ok",
                           IF cmd = "INSERT" THEN 1
                           ELSE IF t = "transactions"
                                THEN Cardinality(transactions_of(d))
                                ELSE Cardinality(positions_of(d)))
            /\ transactions' =
                 IF t # "transactions" \/ cmd = "SELECT" THEN transactions
                 ELSE IF cmd = "INSERT"
                      THEN Append(transactions, [depot_id |-> d, cash_delta |-> 1])
                 ELSE IF cmd = "UPDATE"
                      THEN [i \in 1..Len(transactions) |->
                              IF transactions[i].depot_id = d
                              THEN [transactions[i] EXCEPT !.cash_delta = 0]
                              ELSE transactions[i]]
                 ELSE SelectSeq(transactions, LAMBDA x : x.depot_id # d)
            /\ positions' =
                 IF t # "positions" \/ cmd = "SELECT" THEN positions
                 ELSE IF cmd = "INSERT"
                      THEN positions \cup {[id |-> Cardinality(positions) + 1, depot_id |-> d,
                                            asset_id |-> 1, amount |-> 1]}
                 ELSE IF cmd = "UPDATE"
                      THEN {IF q.depot_id = d THEN [q EXCEPT !.amount = 0] ELSE q :
                              q \in positions}
                 ELSE {q \in positions : q.depot_id # d}
    /\ UNCHANGED <<definer, ui, roleVars, depots, budgetVars, values, sessionVars>>

\* depots.update_savings_plan of the specification (6): a member of the plan's
\* depot changes the worth of the plan; the ledger is not touched
update_savings_plan(c, id, worth) ==
    /\ IF \E sp \in savings_plans : sp.id = id /\ c \in depots[sp.depot_id].users
       THEN /\ savings_plans' = {IF sp.id = id THEN [sp EXCEPT !.worth = worth] ELSE sp :
                                   sp \in savings_plans}
            /\ last' = Ret("update_savings_plan", c, id, "ok", 1)
       ELSE /\ last' = Ret("update_savings_plan", c, id, "NotFound", 0)
            /\ UNCHANGED savings_plans
    /\ UNCHANGED <<definer, ui, roleVars, depotVars, savings_plans_budget, holdingVars,
                   sessionVars>>

\* depots.delete_savings_plan of the specification (4.2, 6): the plan
\* definitions named are removed, the transactions they produced stay
delete_savings_plan(c, ids) ==
    /\ savings_plans' = {sp \in savings_plans :
                           ~(sp.id \in ids /\ c \in depots[sp.depot_id].users)}
    /\ last' = Ret("delete_savings_plan", c, 0, "ok",
                   Cardinality(savings_plans) - Cardinality(savings_plans'))
    /\ UNCHANGED <<definer, ui, roleVars, depotVars, savings_plans_budget, holdingVars,
                   sessionVars>>

\* ------------------------------------------------------- buys and sells
\* the position table after n more units of asset 1 came into depot d (n < 0:
\* went out of it): the row is created when missing and removed at amount 0
add_position(ps, d, n) ==
    IF \E q \in ps : q.depot_id = d /\ q.asset_id = 1
    THEN {q \in {IF x.depot_id = d /\ x.asset_id = 1
                 THEN [x EXCEPT !.amount = @ + n] ELSE x : x \in ps} :
            q.amount # 0}
    ELSE ps \cup {[id |-> CHOOSE i \in 1..(Cardinality(ps) + 1) : \A q \in ps : q.id # i,
                   depot_id |-> d, asset_id |-> 1, amount |-> n]}

\* a session asks for a buy of units of asset 1 in depot d at price 1, either
\* for a user or, in the scheduler's session, for a due savings plan
buy_request(s, d, units) ==
    /\ buys[s].pc = "idle"
    /\ d \in DOMAIN depots
    /\ buys' = [buys EXCEPT ![s] = [pc |-> "wait", depot_id |-> d, cost |-> units, cash |-> 0]]
    /\ UNCHANGED <<definer, ui, roleVars, depotVars, budgetVars, holdingVars, locked, stmtVars,
                   last>>

\* exclusive access that every session is given at once
lock_free_always(d) ==
    TRUE

\* exclusive access to depot d (specification 5) can be given
lock_free(d) ==
    d \notin locked

\* the session is given exclusive access to the depot and reads its cash
buy_read(s) ==
    /\ buys[s].pc = "wait"
    /\ lock_free(buys[s].depot_id)
    /\ locked' = locked \cup {buys[s].depot_id}
    /\ buys' = [buys EXCEPT ![s].pc = "act", ![s].cash = depots[buys[s].depot_id].cash]
    /\ UNCHANGED <<definer, ui, roleVars, depotVars, budgetVars, holdingVars, stmtVars, last>>

\* the session acts on the cash it read: when it covers the cost the cash is
\* debited, the position raised and the buy appended to the ledger, else the
\* buy is refused; then the depot is released
buy_commit(s) ==
    /\ buys[s].pc = "act"
    /\ IF buys[s].cash >= buys[s].cost
       THEN /\ depots' = [depots EXCEPT ![buys[s].depot_id].cash = buys[s].cash - buys[s].cost]
            /\ transactions' = Append(transactions, [depot_id |-> buys[s].depot_id,
                                                     cash_delta |-> -buys[s].cost])
            /\ positions' = add_position(positions, buys[s].depot_id, buys[s].cost)
            /\ last' = Ret("buy", s, buys[s].depot_id, "ok", 1)
       ELSE /\ last' = Ret("buy", s, buys[s].depot_id, "InsufficientCash", 0)
            /\ UNCHANGED <<depotVars, positions>>
    /\ locked' = locked \ {buys[s].depot_id}
    /\ buys' = [buys EXCEPT ![s] = NoBuys[s]]
    /\ UNCHANGED <<definer, ui, roleVars, budgetVars, values, stmtVars>>

\* the units of asset 1 that depot d holds
held(d) ==
    IF \E q \in positions : q.depot_id = d /\ q.asset_id = 1
    THEN (CHOOSE q \in positions : q.depot_id = d /\ q.asset_id = 1).amount
    ELSE 0

\* a check that lets every sell pass
insufficient_never(d, units) ==
    FALSE

\* the sell would leave a negative quantity
insufficient(d, units) ==
    units > held(d)

\* the sell of the specification (4.3): a member sells units of asset 1 out of
\* depot d at price 1; refused with InsufficientPosition when the depot holds
\* fewer, else the position is lowered, the cash raised and the sell appended
sell(c, d, units) ==
    /\ d \in DOMAIN depots
    /\ c \in depots[d].users
    /\ insufficient(d, units)
         \/ (Len(transactions) < MaxTx /\ depots[d].cash + units <= MaxCash)
    /\ IF insufficient(d, units)
       THEN /\ last' = Ret("sell", c, d, "InsufficientPosition", 0)
            /\ UNCHANGED <<depotVars, positions>>
       ELSE /\ positions' = add_position(positions, d, -units)
            /\ depots' = [depots EXCEPT ![d].cash = @ + units]
            /\ transactions' = Append(transactions, [depot_id |-> d, cash_delta |-> units])
            /\ last' = Ret("sell", c, d, "ok", 1)
    /\ UNCHANGED <<definer, ui, roleVars, budgetVars, values, sessionVars>>

\* --------------------------------------------- statements that run at once
\* a row that every statement may write at once
row_lock_free_always(t, id) ==
    TRUE

\* an UPDATE (or the UPDATE of an INSERT ... ON CONFLICT) waits while another
\* open statement has written the row, and then works on the committed row
row_lock_free(t, id) ==
    <<t, id>> \notin row_locks

\* depots.grant_reward in session s, up to its UPDATE: the role check
grant_reward_begin(s, c, d, a) ==
    /\ calls[s].pc = "idle"
    /\ IF ~grant_reward_check(c)
       THEN /\ last' = Ret("grant_reward", c, d, "Unauthorized", 0)
            /\ UNCHANGED calls
       ELSE /\ calls' = [calls EXCEPT ![s] = [pc |-> "update", caller |-> c, depot_id |-> d,
                                              arg |-> a, staged |-> 0]]
            /\ UNCHANGED last
    /\ UNCHANGED <<definer, ui, roleVars, depotVars, budgetVars, holdingVars, buys, locked,
                   row_locks>>

\* the UPDATE of depots.grant_reward: the new cash is computed from the row as
\* committed and stays invisible to the other sessions until the commit
grant_reward_write(s) ==
    /\ calls[s].pc = "update"
    /\ IF calls[s].depot_id \notin DOMAIN depots
       THEN /\ calls' = [calls EXCEPT ![s].pc = "commit"]
            /\ UNCHANGED row_locks
       ELSE /\ row_lock_free("depots", calls[s].depot_id)
            /\ depots[calls[s].depot_id].cash + calls[s].arg \in (-MaxCash)..MaxCash
            /\ row_locks' = row_locks \cup {<<"depots", calls[s].depot_id>>}
            /\ calls' = [calls EXCEPT
                           ![s].pc = "commit",
                           ![s].staged =
                              grant_reward_update(calls[s].depot_id, calls[s].arg)
                                 [calls[s].depot_id].cash]
    /\ UNCHANGED <<definer, ui, roleVars, depotVars, budgetVars, holdingVars, buys, locked, last>>

\* the end of the call: the function returns and its transaction commits
grant_reward_commit(s) ==
    /\ calls[s].pc = "commit"
    /\ depots' = IF calls[s].depot_id \in DOMAIN depots
                 THEN [depots EXCEPT ![calls[s].depot_id].cash = calls[s].staged]
                 ELSE depots
    /\ row_locks' = row_locks \ {<<"depots", calls[s].depot_id>>}
    /\ last' = Ret("grant_reward", calls[s].caller, calls[s].depot_id, "ok",
                   IF calls[s].depot_id \in DOMAIN depots THEN 1 ELSE 0)
    /\ calls' = [calls EXCEPT ![s] = NoCalls[s]]
    /\ UNCHANGED <<definer, ui, roleVars, transactions, budgetVars, holdingVars, buys, locked>>

\* depots.change_budget in session s, up to and with its INSERT ... ON
\* CONFLICT: refused by the policies or by the foreign key, or else the row is
\* written, invisible to the other sessions until the commit
change_budget_write(s, c, d, b) ==
    /\ calls[s].pc = "idle"
    /\ IF ~(bypass_rls(c, FALSE) \/ budget_write_policy(c, d))
       THEN /\ last' = Ret("change_budget", c, d, "rls_violation", 0)
            /\ UNCHANGED stmtVars
       ELSE IF d \notin DOMAIN depots
       THEN /\ last' = Ret("change_budget", c, d, "foreign_key_violation", 0)
            /\ UNCHANGED stmtVars
       ELSE /\ row_lock_free("savings_plans_budget", d)
            /\ row_locks' = row_locks \cup {<<"savings_plans_budget", d>>}
            /\ calls' = [calls EXCEPT ![s] = [pc |-> "budget_commit", caller |-> c,
                                              depot_id |-> d, arg |-> b, staged |-> b]]
            /\ UNCHANGED last
    /\ UNCHANGED <<definer, ui, roleVars, depotVars, budgetVars, holdingVars, buys, locked>>

\* the end of the call: the function returns and its transaction commits
change_budget_commit(s) ==
    /\ calls[s].pc = "budget_commit"
    /\ savings_plans_budget' =
         budget_upsert(savings_plans_budget, calls[s].depot_id, calls[s].staged)
    /\ row_locks' = row_locks \ {<<"savings_plans_budget", calls[s].depot_id>>}
    /\ last' = Ret("change_budget", calls[s].caller, calls[s].depot_id, "ok", 1)
    /\ calls' = [calls EXCEPT ![s] = NoCalls[s]]
    /\ UNCHANGED <<definer, ui, roleVars, depotVars, savings_plans, holdingVars, buys, locked>>

\* what the database holds for config.monthly_budget_start: nothing, or a number
Settings == {NULL} \cup {Num(b) : b \in Budgets}

\* current_setting(name) with one argument: the value, or the error
\* "unrecognized configuration parameter" when the parameter is not set; it
\* never yields NULL
current_setting(setting) ==
    IF setting = NULL
    THEN [error |-> TRUE, value |-> NULL]
    ELSE [error |-> FALSE, value |-> setting]

\* COALESCE(v, 0)
coalesce0(v) ==
    IF v = NULL THEN 0 ELSE CHOOSE n \in v : TRUE

\* INSERT INTO depots.depots of a depot d of user c, with the trigger
\* grant_default_budget (AFTER INSERT, FOR EACH ROW, SECURITY DEFINER): the
\* trigger function runs change_budget as its owner, who owns the budget table
\* too and is not subject to its policies.  An error in the trigger aborts the
\* INSERT.
create_depot(c, d, setting) ==
    /\ d \notin DOMAIN depots
    /\ IF current_setting(setting).error
       THEN /\ last' = Ret("create_depot", c, d, "unrecognized_parameter", 0)
            /\ UNCHANGED <<depots, savings_plans_budget>>
       ELSE /\ depots' = [x \in DOMAIN depots \cup {d} |->
                            IF x = d
                            THEN [cash |-> CashStart, cash_start |-> CashStart, users |-> {c}]
                            ELSE depots[x]]
            /\ savings_plans_budget' =
                 budget_upsert(savings_plans_budget, d,
                               coalesce0(current_setting(setting).value))
            /\ last' = Ret("create_depot", c, d, "ok", 1)
    /\ UNCHANGED <<definer, ui, roleVars, transactions, savings_plans, holdingVars, sessionVars>>

\* ------------------------------------------------- frontend: the tables
\* a JavaScript value: its type, and its number or its string
Js(t, n, s) == [t |-> t, n |-> n, s |-> s]
undefined == Js("undefined", 0, "")
null == Js("null", 0, "")
NaN == Js("NaN", 0, "")
JsNum(n) == Js("number", n, "")
JsStr(s) == Js("string", 0, s)

\* a condition that holds for every value but null and undefined
truthy_defined(v) == v.t \notin {"undefined", "null"}

\* `if (v)`: undefined, null, NaN, 0 and "" are falsy
truthy(v) ==
    CASE v.t = "number" -> v.n # 0
      [] v.t = "string" -> v.s # ""
      [] OTHER -> FALSE

\* `a ?? b`: a unless it is null or undefined
or_nullish(a, b) == IF a.t \in {"undefined", "null"} THEN b ELSE a

\* the first operand whenever the field was set at all
or_first_set(a, b) == IF a.t = "undefined" THEN b ELSE a

\* `a || b`
or_js(a, b) == IF truthy(a) THEN a ELSE b

\* what the user can type into a number field
InputStrings == {"", "0", "abc", "200", "250"}

\* parseFloat on the strings above
parseFloat(s) ==
    CASE s = "0" -> JsNum(0)
      [] s = "200" -> JsNum(200)
      [] s = "250" -> JsNum(250)
      [] OTHER -> NaN

\* useState({}) of the tables: no field of editedData is set
NoEdits ==
    [monthly_budget |-> undefined, asset_id |-> undefined,
     worth_string |-> undefined, frequency |-> undefined,
     user_name |-> undefined]

\* a server call in flight: its arguments and what is chained on its promise
Mutation(fn, args, then) == [fn |-> fn, args |-> args, then |-> then]
NoMutation == Mutation("none", <<>>, "none")

\* the pages that show an editable table
Pages == {"/admin/depots", "/admin", "/savings_plan"}

\* the state of a freshly mounted table: no row edited, nothing in flight
NoUi ==
    [page |-> "/admin/depots", editingRowId |-> "null", editedData |-> NoEdits,
     pending |-> {}, refresh |-> [for |-> NoMutation, settled |-> TRUE]]

\* the calls one admin page can have in flight at once
MaxPending == 2

\* the rpc calls the savings plan page can await at once
MaxAwaited == 1

\* calling a server action: its promise is pending until it settles
start(u, m) == [u EXCEPT !.pending = @ \cup {m}]
can_start(m) == m \notin ui.pending /\ Cardinality(ui.pending) < MaxPending

\* router.refresh() called on behalf of mutation m: the page is fetched
\* again now, whether or not m has settled
router_refresh(u, m) ==
    [u EXCEPT !.refresh = [for |-> m, settled |-> m \notin u.pending]]

dbVars == <<definer, roleVars, depotVars, budgetVars, holdingVars, sessionVars>>

\* the rows of the admin depot table: depots 1 and 2, and a row without id
DepotTableRows ==
    {[id |-> "0", original |-> [id |-> JsNum(1), monthly_budget |-> JsNum(250)]],
     [id |-> "1", original |-> [id |-> JsNum(2), monthly_budget |-> null]],
     [id |-> "2", original |-> [id |-> null, monthly_budget |-> null]]}

\* depot table: the pencil button of a row
DepotTable_handleEdit(row) ==
    /\ ui.page = "/admin/depots"
    /\ ui' = [ui EXCEPT !.editingRowId = row.id,
                        !.editedData = [NoEdits EXCEPT !.monthly_budget =
                                          row.original.monthly_budget]]
    /\ UNCHANGED <<dbVars, last>>

\* depot table: typing into the budget field of the row being edited
DepotTable_updateEditedData(value) ==
    /\ ui.page = "/admin/depots"
    /\ ui.editingRowId # "null"
    /\ LET numValue == IF value = "" THEN null ELSE parseFloat(value)
       IN  ui' = [ui EXCEPT !.editedData.monthly_budget = numValue]
    /\ UNCHANGED <<dbVars, last>>

\* depot table: the check button of the row being edited
DepotTable_handleSave(row) ==
    /\ ui.page = "/admin/depots"
    /\ ui.editingRowId = row.id
    /\ LET depot_id == row.original.id
           monthly_budget == ui.editedData.monthly_budget
           m == Mutation("changeBudget", <<depot_id, monthly_budget>>, "handleError")
       IN  IF ~truthy(depot_id)
           THEN /\ last' = Ret("DepotTable.handleSave", NoUid, 0, "Depot ID fehlt", 0)
                /\ UNCHANGED ui
           ELSE /\ truthy(monthly_budget) => can_start(m)
                /\ LET called == IF truthy(monthly_budget) THEN start(ui, m) ELSE ui
                       closed == [called EXCEPT !.editingRowId = "null",
                                                !.editedData = NoEdits]
                   IN  ui' = router_refresh(closed, IF truthy(monthly_budget)
                                                    THEN m ELSE NoMutation)
                /\ last' = Ret("DepotTable.handleSave", NoUid, depot_id.n, "ok",
                               IF truthy(monthly_budget) THEN 1 ELSE 0)
    /\ UNCHANGED dbVars

\* depot table: the cross button of the row being edited
DepotTable_handleCancel ==
    /\ ui.page = "/admin/depots"
    /\ ui.editingRowId # "null"
    /\ ui' = [ui EXCEPT !.editingRowId = "null", !.editedData = NoEdits]
    /\ UNCHANGED <<dbVars, last>>

\* depot menu: confirming the delete dialog
DotsMenu_deleteDepot(depotId) ==
    /\ ui.page = "/admin/depots"
    /\ LET m == Mutation("deleteDepot", <<JsNum(depotId)>>, "handleError;refresh")
       IN  /\ can_start(m)
           /\ ui' = start(ui, m)
    /\ UNCHANGED <<dbVars, last>>

\* depot menu: submitting the reward form
DotsMenu_grantReward(depotId, amount) ==
    /\ ui.page = "/admin/depots"
    /\ LET m == Mutation("grantReward", <<JsNum(depotId), JsNum(amount)>>,
                         "handleError;refresh")
       IN  /\ can_start(m)
           /\ ui' = start(ui, m)
    /\ UNCHANGED <<dbVars, last>>

\* the rows of the admin user table: one user, and a row without id
UserTableRows ==
    {[id |-> "0", original |-> [id |-> JsStr("u2"), user_name |-> JsStr("u2")]],
     [id |-> "1", original |-> [id |-> null, user_name |-> null]]}

\* user table: the pencil button of a row
UserTable_handleEdit(row) ==
    /\ ui.page = "/admin"
    /\ ui' = [ui EXCEPT !.editingRowId = row.id,
                        !.editedData = [NoEdits EXCEPT !.user_name =
                                          or_nullish(row.original.user_name, undefined)]]
    /\ UNCHANGED <<dbVars, last>>

\* user table: the check button of the row being edited
UserTable_handleSave(row) ==
    /\ ui.page = "/admin"
    /\ ui.editingRowId = row.id
    /\ LET user_id == row.original.id
           m == Mutation("updateUser", <<user_id, ui.editedData.user_name>>,
                         "handleError")
       IN  /\ truthy(user_id) => can_start(m)
           /\ LET called == IF truthy(user_id) THEN start(ui, m) ELSE ui
                  closed == [called EXCEPT !.editingRowId = "null",
                                           !.editedData = NoEdits]
              IN  ui' = router_refresh(closed, IF truthy(user_id) THEN m ELSE NoMutation)
           /\ last' = Ret("UserTable.handleSave", NoUid, 0,
                          IF truthy(user_id) THEN "ok" ELSE "User ID is missing",
                          IF truthy(user_id) THEN 1 ELSE 0)
    /\ UNCHANGED dbVars

\* user table: the cross button of the row being edited
UserTable_handleCancel ==
    /\ ui.page = "/admin"
    /\ ui.editingRowId # "null"
    /\ ui' = [ui EXCEPT !.editingRowId = "null", !.editedData = NoEdits]
    /\ UNCHANGED <<dbVars, last>>

\* user table: typing into the name field of the row being edited
UserTable_updateEditedData(value) ==
    /\ ui.page = "/admin"
    /\ ui.editingRowId # "null"
    /\ ui' = [ui EXCEPT !.editedData.user_name = JsStr(value)]
    /\ UNCHANGED <<dbVars, last>>

\* the entries and forms of the user menu
UserMenu == {"changePassword", "banUser", "deleteUser", "revokeTeacher",
             "grantTeacher", "unbanUser"}

\* user menu: an entry clicked, or its form submitted
UserMenu_onClick(fn, userId) ==
    /\ ui.page = "/admin"
    /\ LET m == Mutation(fn, <<JsStr(userId)>>, "handleError")
       IN  /\ can_start(m)
           /\ ui' = router_refresh(start(ui, m), m)
    /\ UNCHANGED <<dbVars, last>>

\* the promise of a server action settles, and what is chained on it runs
settle(m) ==
    /\ m \in ui.pending
    /\ m.then \in {"handleError", "handleError;refresh"}
    /\ LET settled == [ui EXCEPT !.pending = @ \ {m}]
       IN  ui' = IF m.then = "handleError;refresh"
                 THEN router_refresh(settled, m)
                 ELSE settled
    /\ UNCHANGED <<dbVars, last>>

\* the rows of the savings plan table: a full one, and one per missing column
PlanRow(i, id, asset_id, worth, frequency) ==
    [id |-> i, original |-> [id |-> id, asset_id |-> asset_id, worth |-> worth,
                             frequency |-> frequency]]
PlanTableRows ==
    {PlanRow("0", JsNum(1), JsNum(7), JsNum(100), JsStr("monthly")),
     PlanRow("1", null, JsNum(7), JsNum(100), JsStr("monthly")),
     PlanRow("2", JsNum(1), null, JsNum(100), JsStr("monthly")),
     PlanRow("3", JsNum(1), JsNum(7), null, JsStr("monthly")),
     PlanRow("4", JsNum(1), JsNum(7), JsNum(100), null)}

\* savings plan table: the pencil button of a row copies the row
SavingsPlanTable_handleEdit(row) ==
    /\ ui.page = "/savings_plan"
    /\ ui' = [ui EXCEPT !.editingRowId = row.id,
                        !.editedData = [NoEdits EXCEPT
                                          !.asset_id = row.original.asset_id,
                                          !.frequency = row.original.frequency]]
    /\ UNCHANGED <<dbVars, last>>

\* what the cells of the row being edited can set
PlanEdits ==
    ({"asset_id"} \X {JsNum(8)})
      \cup ({"worth_string"} \X {JsStr(s) : s \in InputStrings \ {"250"}})
      \cup ({"frequency"} \X {JsStr("weekly")})

\* savings plan table: a cell of the row being edited changes
SavingsPlanTable_updateEditedData(field, value) ==
    /\ ui.page = "/savings_plan"
    /\ ui.editingRowId # "null"
    /\ ui' = [ui EXCEPT !.editedData = [@ EXCEPT ![field] = value]]
    /\ UNCHANGED <<dbVars, last>>

\* savings plan table: the cross button of the row being edited
SavingsPlanTable_handleCancel ==
    /\ ui.page = "/savings_plan"
    /\ ui.editingRowId # "null"
    /\ ui' = [ui EXCEPT !.editingRowId = "null", !.editedData = NoEdits]
    /\ UNCHANGED <<dbVars, last>>

\* savings plan table: the check button, up to the awaited rpc
SavingsPlanTable_handleSave(row) ==
    /\ ui.page = "/savings_plan"
    /\ ui.editingRowId = row.id
    /\ LET edited == ui.editedData
           p_id == row.original.id
           p_asset_id == or_js(edited.asset_id, row.original.asset_id)
           worth == IF truthy(edited.worth_string)
                    THEN parseFloat(edited.worth_string.s)
                    ELSE null
           p_worth == or_js(worth, row.original.worth)
           p_frequency == or_js(edited.frequency, row.original.frequency)
           m == Mutation("update_savings_plan",
                         <<p_id, p_asset_id, p_worth, p_frequency>>, "handleSave")
           Error(message) ==
               /\ last' = Ret("SavingsPlanTable.handleSave", NoUid, 0, message, 0)
               /\ UNCHANGED ui
       IN  CASE ~truthy(p_id) -> Error("No active savings plan selected")
             [] truthy(p_id) /\ ~truthy(p_asset_id) -> Error("No asset selected")
             [] truthy(p_id) /\ truthy(p_asset_id) /\ ~truthy(p_worth) ->
                  Error("No worth provided")
             [] truthy(p_id) /\ truthy(p_asset_id) /\ truthy(p_worth)
                  /\ ~truthy(p_frequency) -> Error("No frequency provided")
             [] OTHER ->
                  /\ m \notin ui.pending
                  /\ Cardinality(ui.pending) < MaxAwaited
                  /\ ui' = start(ui, m)
                  /\ last' = Ret("SavingsPlanTable.handleSave", NoUid, 0, "await", 1)
    /\ UNCHANGED dbVars

\* what the rpc can answer: no error, or one
RpcErrors == {null, JsStr("rpc error")}

\* savings plan table: handleSave resumes when the rpc has answered
SavingsPlanTable_handleSave_resume(m, error) ==
    /\ m \in ui.pending
    /\ m.then = "handleSave"
    /\ LET settled == [ui EXCEPT !.pending = @ \ {m}]
       IN  IF truthy(error)
           THEN /\ ui' = settled
                /\ last' = Ret("SavingsPlanTable.handleSave", NoUid, 0, error.s, 0)
           ELSE /\ ui' = router_refresh([settled EXCEPT !.editingRowId = "null",
                                                        !.editedData = NoEdits], m)
                /\ last' = Ret("SavingsPlanTable.handleSave", NoUid, 0, "ok", 1)
    /\ UNCHANGED dbVars


\* the rows of depots.depots: depot 1 of one user, depot 2 shared by two
DepotRows ==
    [d \in DepotIds |->
       [cash |-> CashStart, cash_start |-> CashStart,
        users |-> IF d = 1 THEN {"u1"} ELSE {"u1", "u2"}]]

\* ------------------------------------------------------- initial states
\* the database right after admin.sql ran: no role rows, no flag set
Init ==
    /\ definer \in Owners
    /\ special_roles = {}
    /\ is_super_admin = [u \in Users |-> FALSE]
    /\ depots = DepotRows
    /\ transactions = <<>>
    /\ positions = {}
    /\ values = {}
    /\ buys = NoBuys
    /\ calls = NoCalls
    /\ row_locks = {}
    /\ ui = NoUi
    /\ locked = {}
    /\ savings_plans_budget = [d \in {} |-> 0]
    /\ savings_plans = {}
    /\ last = NoCall

Next ==
    \/ \E c \in Callers, u \in Users, r \in special_role : grant_role(c, u, r)
    \/ \E c \in Callers, u \in Users, r \in special_role : revoke_role(c, u, r)
    \/ \E c \in Callers, u \in Users : grant_teacher(c, u)
    \/ \E c \in Callers, u \in Users : revoke_teacher(c, u)
    \/ \E c \in Callers : get_admin_overview(c)

Spec == Init /\ [][Next]_vars

\* the database some time after admin.sql ran: u1 holds any subset of the two
\* roles (granted by the superuser through grant_role), u2 holds none
InitGate ==
    /\ definer \in Owners
    /\ \E rs \in SUBSET special_role : special_roles = {"u1"} \X rs
    /\ is_super_admin = [u \in Users |-> FALSE]
    /\ depots = DepotRows
    /\ transactions = <<>>
    /\ positions = {}
    /\ values = {}
    /\ buys = NoBuys
    /\ calls = NoCalls
    /\ row_locks = {}
    /\ ui = NoUi
    /\ locked = {}
    /\ savings_plans_budget = [d \in {} |-> 0]
    /\ savings_plans = {}
    /\ last = NoCall

\* the operations that begin with a role check
NextGate ==
    \/ \E c \in Callers, d \in DepotArgs, a \in Amounts : grant_reward(c, d, a)
    \/ \E c \in Callers : get_admin_overview(c)
    \/ \E c \in Callers : get_depot_overview(c)

SpecGate == InitGate /\ [][NextGate]_vars

\* the same role tables; the owner of the functions plays no part in the
\* SECURITY INVOKER function depots.grant_reward
InitDepots ==
    /\ definer = "postgres"
    /\ \E rs \in SUBSET special_role : special_roles = {"u1"} \X rs
    /\ is_super_admin = [u \in Users |-> FALSE]
    /\ depots = DepotRows
    /\ transactions = <<>>
    /\ positions = {}
    /\ values = {}
    /\ buys = NoBuys
    /\ calls = NoCalls
    /\ row_locks = {}
    /\ ui = NoUi
    /\ locked = {}
    /\ savings_plans_budget = [d \in {} |-> 0]
    /\ savings_plans = {}
    /\ last = NoCall

NextDepots ==
    \/ \E c \in Callers, d \in DepotArgs, a \in Amounts : grant_reward(c, d, a)
    \/ \E c \in Users, d \in DepotIds, delta \in TxDeltas : createTransaction(c, d, delta)

SpecDepots == InitDepots /\ [][NextDepots]_vars

\* depots created before the budget table have no budget row; the others have
\* one.  u1 holds any subset of the two roles, u2 none.
InitBudget ==
    /\ definer \in Owners
    /\ \E rs \in SUBSET special_role : special_roles = {"u1"} \X rs
    /\ is_super_admin = [u \in Users |-> FALSE]
    /\ depots = DepotRows
    /\ transactions = <<>>
    /\ positions = {}
    /\ values = {}
    /\ buys = NoBuys
    /\ calls = NoCalls
    /\ row_locks = {}
    /\ ui = NoUi
    /\ locked = {}
    /\ \E with \in SUBSET DepotIds :
          savings_plans_budget \in [with -> Budgets]
    /\ savings_plans = {}
    /\ last = NoCall

NextBudget ==
    \/ \E c \in Callers, d \in DepotArgs, b \in Budgets : change_budget(c, d, b)
    \/ \E c \in Callers : select_budget_overview(c)

SpecBudget == InitBudget /\ [][NextBudget]_vars

\* the tables of n savings plans, with ids 1..n
PlanTables(n) ==
    {{[id |-> i, depot_id |-> f[i].depot_id, worth |-> f[i].worth, period |-> f[i].period]
        : i \in 1..n} :
       f \in [1..n -> [depot_id : DepotIds, worth : Worths, period : Periods]]}

\* the inputs of the budget overview: up to MaxPlans savings plans, each of any
\* depot, worth and frequency, and a budget row for any of the depots
InitOverview ==
    /\ definer = "postgres"
    /\ special_roles = {}
    /\ is_super_admin = [u \in Users |-> FALSE]
    /\ depots = DepotRows
    /\ transactions = <<>>
    /\ positions = {}
    /\ values = {}
    /\ buys = NoBuys
    /\ calls = NoCalls
    /\ row_locks = {}
    /\ ui = NoUi
    /\ locked = {}
    /\ \E with \in SUBSET DepotIds :
          savings_plans_budget \in [with -> Budgets]
    /\ \E n \in 0..MaxPlans : savings_plans \in PlanTables(n)
    /\ last = NoCall

NextOverview ==
    \E c \in Callers : select_budget_overview(c)

SpecOverview == InitOverview /\ [][NextOverview]_vars

\* the tables of n positions, with ids 1..n: position i is one unit of asset i
PositionTables(n) ==
    {{[id |-> i, depot_id |-> f[i], asset_id |-> i, amount |-> 1] : i \in 1..n} :
       f \in [1..n -> DepotIds]}

\* the ledgers of n rows
Ledgers(n) ==
    [1..n -> [depot_id : DepotIds, cash_delta : TxDeltas]]

\* the inputs of the two overviews: up to MaxTx ledger rows and up to
\* MaxPositions positions, each of any depot; u1 is a teacher
InitCounts ==
    /\ definer \in Owners
    /\ special_roles = {<<"u1", "teacher">>}
    /\ is_super_admin = [u \in Users |-> FALSE]
    /\ depots = DepotRows
    /\ \E n \in 0..MaxTx : transactions \in Ledgers(n)
    /\ \E n \in 0..MaxPositions : positions \in PositionTables(n)
    /\ values = {}
    /\ buys = NoBuys
    /\ calls = NoCalls
    /\ row_locks = {}
    /\ ui = NoUi
    /\ locked = {}
    /\ \E with \in SUBSET DepotIds :
          savings_plans_budget \in [with -> {250}]
    /\ savings_plans = {}
    /\ last = NoCall

NextCounts ==
    \/ \E c \in Callers : get_depot_overview(c)
    \/ \E c \in Callers : get_admin_overview(c)

SpecCounts == InitCounts /\ [][NextCounts]_vars

\* the snapshot tables: at most one snapshot for each depot and age
SnapshotTables ==
    UNION {{{[depot_id |-> k[1], age |-> k[2], total |-> f[k]] : k \in keys} :
              f \in [keys -> Totals]} :
             keys \in SUBSET ({1} \X SnapshotAges)}

\* the inputs of the dashboard page: any snapshots of depot 1, none of depot 2
InitPage ==
    /\ definer = "postgres"
    /\ special_roles = {}
    /\ is_super_admin = [u \in Users |-> FALSE]
    /\ depots = DepotRows
    /\ transactions = <<>>
    /\ positions = {}
    /\ values \in SnapshotTables
    /\ buys = NoBuys
    /\ calls = NoCalls
    /\ row_locks = {}
    /\ ui = NoUi
    /\ locked = {}
    /\ savings_plans_budget = [d \in {} |-> 0]
    /\ savings_plans = {}
    /\ last = NoCall

NextPage ==
    \E c \in Users, d \in DepotArgs : Page(c, d)

SpecPage == InitPage /\ [][NextPage]_vars

\* the tables a depot owns rows in, filled in any way: a budget row for any of
\* the depots, up to MaxPlans monthly plans, up to MaxPositions positions, up
\* to MaxTx buys in the ledger, a snapshot of today for each depot
InitDelete ==
    /\ definer = "postgres"
    /\ special_roles = {<<"u1", "teacher">>}
    /\ is_super_admin = [u \in Users |-> FALSE]
    /\ depots = DepotRows
    /\ \E n \in 0..MaxTx :
         /\ transactions \in Ledgers(n)
         /\ \A i \in 1..n : transactions[i].cash_delta = -1
    /\ \E n \in 0..MaxPositions : positions \in PositionTables(n)
    /\ values = {[depot_id |-> d, age |-> 0, total |-> 1] : d \in DepotIds}
    /\ buys = NoBuys
    /\ calls = NoCalls
    /\ row_locks = {}
    /\ ui = NoUi
    /\ locked = {}
    /\ \E with \in SUBSET DepotIds :
          savings_plans_budget \in [with -> {250}]
    /\ \E n \in 0..MaxPlans :
         /\ savings_plans \in PlanTables(n)
         /\ \A sp \in savings_plans : sp.worth = 100 /\ sp.period = "monthly"
    /\ last = NoCall

NextDelete ==
    \E c \in Callers, d \in DepotArgs : deleteDepot(c, d)

SpecDelete == InitDelete /\ [][NextDelete]_vars

\* a ledger of up to MaxTx buys, a position in each depot, one savings plan of
\* depot 1, and any of the users a teacher
InitLedger ==
    /\ definer = "postgres"
    /\ \E ts \in SUBSET Users : special_roles = ts \X {"teacher"}
    /\ is_super_admin = [u \in Users |-> FALSE]
    /\ depots = DepotRows
    /\ \E n \in 0..MaxTx :
         /\ transactions \in Ledgers(n)
         /\ \A i \in 1..n : transactions[i].cash_delta = -1
    /\ positions = {[id |-> d, depot_id |-> d, asset_id |-> 1, amount |-> 1] : d \in DepotIds}
    /\ values = {}
    /\ buys = NoBuys
    /\ calls = NoCalls
    /\ row_locks = {}
    /\ ui = NoUi
    /\ locked = {}
    /\ savings_plans_budget = [d \in {} |-> 0]
    /\ savings_plans = {[id |-> 1, depot_id |-> 1, worth |-> 100, period |-> "monthly"]}
    /\ last = NoCall

\* the privileged operations and the statements of a teacher on the two tables
NextLedger ==
    \/ \E c \in Users, d \in {1, 3} : grant_reward(c, d, 1)
    \/ \E c \in Users : change_budget(c, 1, 250)
    \/ \E c \in Users, u \in Users : grant_teacher(c, u)
    \/ \E c \in Users, u \in Users : revoke_teacher(c, u)
    \/ \E c \in Users, worth \in Worths : update_savings_plan(c, 1, worth)
    \/ \E c \in Users : delete_savings_plan(c, {1})
    \/ \E c \in Users, d \in DepotIds, t \in {"transactions", "positions"}, cmd \in Commands :
         teacher_dml(c, d, t, cmd)

SpecLedger == InitLedger /\ [][NextLedger]_vars

\* three sessions that buy at the same time: two of users and the scheduler's
InitBuys ==
    /\ definer = "postgres"
    /\ special_roles = {}
    /\ is_super_admin = [u \in Users |-> FALSE]
    /\ depots = DepotRows
    /\ transactions = <<>>
    /\ positions = {}
    /\ values = {}
    /\ buys = NoBuys
    /\ calls = NoCalls
    /\ row_locks = {}
    /\ ui = NoUi
    /\ locked = {}
    /\ savings_plans_budget = [d \in {} |-> 0]
    /\ savings_plans = {}
    /\ last = NoCall

NextBuys ==
    \/ \E s \in Sessions, d \in DepotIds, units \in 1..MaxAmount : buy_request(s, d, units)
    \/ \E s \in Sessions : buy_read(s)
    \/ \E s \in Sessions : buy_commit(s)

SpecBuys == InitBuys /\ [][NextBuys]_vars

\* each depot holds up to MaxAmount units of asset 1, or none, and has any
\* part of its starting cash left
InitSell ==
    /\ definer = "postgres"
    /\ special_roles = {}
    /\ is_super_admin = [u \in Users |-> FALSE]
    /\ \E g \in [DepotIds -> 0..CashStart] :
         depots = [d \in DepotIds |-> [DepotRows[d] EXCEPT !.cash = g[d]]]
    /\ transactions = <<>>
    /\ \E f \in [DepotIds -> 0..MaxAmount] :
         positions = {[id |-> d, depot_id |-> d, asset_id |-> 1, amount |-> f[d]] :
                        d \in {x \in DepotIds : f[x] > 0}}
    /\ values = {}
    /\ buys = NoBuys
    /\ calls = NoCalls
    /\ row_locks = {}
    /\ ui = NoUi
    /\ locked = {}
    /\ savings_plans_budget = [d \in {} |-> 0]
    /\ savings_plans = {}
    /\ last = NoCall

NextSell ==
    \E c \in Users, d \in DepotIds, units \in 1..(MaxAmount + 1) : sell(c, d, units)

SpecSell == InitSell /\ [][NextSell]_vars

\* two sessions that call depots.grant_reward at the same time; u1 is a teacher
InitRewards ==
    /\ definer = "postgres"
    /\ special_roles = {<<"u1", "teacher">>}
    /\ is_super_admin = [u \in Users |-> FALSE]
    /\ depots = DepotRows
    /\ transactions = <<>>
    /\ positions = {}
    /\ values = {}
    /\ buys = NoBuys
    /\ calls = NoCalls
    /\ row_locks = {}
    /\ ui = NoUi
    /\ locked = {}
    /\ savings_plans_budget = [d \in {} |-> 0]
    /\ savings_plans = {}
    /\ last = NoCall

NextRewards ==
    \/ \E s \in WebSessions, c \in Users, d \in DepotArgs, a \in Amounts :
         grant_reward_begin(s, c, d, a)
    \/ \E s \in WebSessions : grant_reward_write(s)
    \/ \E s \in WebSessions : grant_reward_commit(s)

SpecRewards == InitRewards /\ [][NextRewards]_vars

\* depot 1 exists, with or without a budget row; depots 2 and 3 can be
\* created; two sessions call depots.change_budget; u1 is a teacher
InitBudgetCalls ==
    /\ definer = "postgres"
    /\ special_roles = {<<"u1", "teacher">>}
    /\ is_super_admin = [u \in Users |-> FALSE]
    /\ depots = [d \in {1} |-> DepotRows[d]]
    /\ transactions = <<>>
    /\ positions = {}
    /\ values = {}
    /\ buys = NoBuys
    /\ calls = NoCalls
    /\ row_locks = {}
    /\ ui = NoUi
    /\ locked = {}
    /\ \E with \in SUBSET {1} : savings_plans_budget \in [with -> Budgets]
    /\ savings_plans = {}
    /\ last = NoCall

NextBudgetCalls ==
    \/ \E s \in WebSessions, c \in Users, d \in DepotArgs, b \in Budgets :
         change_budget_write(s, c, d, b)
    \/ \E s \in WebSessions : change_budget_commit(s)
    \/ \E c \in Users, d \in DepotArgs, setting \in Settings : create_depot(c, d, setting)

SpecBudgetCalls == InitBudgetCalls /\ [][NextBudgetCalls]_vars

\* --------------------------------------------- the admin tables, clicked
\* the depot table or the user table, freshly mounted over a fixed database
InitAdminUi ==
    /\ definer = "postgres"
    /\ special_roles = {<<"u1", "admin">>}
    /\ is_super_admin = [u \in Users |-> FALSE]
    /\ depots = DepotRows
    /\ transactions = <<>>
    /\ savings_plans_budget = [d \in DepotIds |-> 250]
    /\ savings_plans = {}
    /\ positions = {}
    /\ values = {}
    /\ buys = NoBuys
    /\ locked = {}
    /\ calls = NoCalls
    /\ row_locks = {}
    /\ ui \in {[NoUi EXCEPT !.page = p] : p \in {"/admin/depots", "/admin"}}
    /\ last = NoCall

NextAdminUi ==
    \/ \E row \in DepotTableRows : DepotTable_handleEdit(row)
    \/ \E value \in InputStrings : DepotTable_updateEditedData(value)
    \/ \E row \in DepotTableRows : DepotTable_handleSave(row)
    \/ DepotTable_handleCancel
    \/ DotsMenu_deleteDepot(1)
    \/ DotsMenu_grantReward(1, 1)
    \/ \E row \in UserTableRows : UserTable_handleEdit(row)
    \/ \E row \in UserTableRows : UserTable_handleSave(row)
    \/ UserTable_handleCancel
    \/ \E value \in {"", "u3"} : UserTable_updateEditedData(value)
    \/ \E fn \in UserMenu : UserMenu_onClick(fn, "u2")
    \/ \E m \in ui.pending : settle(m)

SpecAdminUi == InitAdminUi /\ [][NextAdminUi]_vars

\* ---------------------------------------- the savings plan table, edited
InitPlanUi ==
    /\ definer = "postgres"
    /\ special_roles = {}
    /\ is_super_admin = [u \in Users |-> FALSE]
    /\ depots = DepotRows
    /\ transactions = <<>>
    /\ savings_plans_budget = [d \in DepotIds |-> 250]
    /\ savings_plans = {}
    /\ positions = {}
    /\ values = {}
    /\ buys = NoBuys
    /\ locked = {}
    /\ calls = NoCalls
    /\ row_locks = {}
    /\ ui = [NoUi EXCEPT !.page = "/savings_plan"]
    /\ last = NoCall

NextPlanUi ==
    \/ \E row \in PlanTableRows : SavingsPlanTable_handleEdit(row)
    \/ \E e \in PlanEdits : SavingsPlanTable_updateEditedData(e[1], e[2])
    \/ SavingsPlanTable_handleCancel
    \/ \E row \in PlanTableRows : SavingsPlanTable_handleSave(row)
    \/ \E m \in ui.pending, error \in RpcErrors :
         SavingsPlanTable_handleSave_resume(m, error)

SpecPlanUi == InitPlanUi /\ [][NextPlanUi]_vars

\* ============================================================ claims
\* a caller who holds neither role and is not the superuser session
NoSpecialRole(c) ==
    /\ c # postgres
    /\ ~has_role(c, "admin")
    /\ ~has_role(c, "teacher")

\* C1: for a caller with neither the teacher nor the admin role (and not the
\* system principal) grant_reward and get_admin_overview end in Unauthorized,
\* for an existing and for a missing depot alike, and no depot's cash changes.
C1_UnprivilegedUnauthorized ==
    [][\A c \in Callers :
         NoSpecialRole(c) =>
           /\ \A d \in DepotArgs, a \in Amounts :
                grant_reward(c, d, a) =>
                  (last'.result = "Unauthorized" /\ depots' = depots)
           /\ get_admin_overview(c) => last'.result = "Unauthorized"]_vars

\* C2: in every reachable state each depot's stored cash equals cash_start
\* plus the sum of the cash deltas of its ledger rows.
C2_CashEqualsLedgerReplay ==
    \A d \in DOMAIN depots :
        depots[d].cash = depots[d].cash_start + LedgerSum(d, Len(transactions))

\* the role rows of one user
RolesOf(roles, u) == {row \in roles : row[1] = u}

\* C3: a grant_teacher(u) that takes effect adds (u, teacher) and sets the
\* elevated flag of u, and leaves the flag and the role rows of every other
\* user as they were.
C3_GrantTeacherTouchesOnlyTarget ==
    [][\A c \in Callers, u \in Users :
         (grant_teacher(c, u) /\ last'.result = "ok") =>
           /\ special_roles' = special_roles \cup {<<u, "teacher">>}
           /\ is_super_admin'[u]
           /\ \A v \in Users \ {u} :
                /\ is_super_admin'[v] = is_super_admin[v]
                /\ RolesOf(special_roles', v) = RolesOf(special_roles, v)]_vars

\* C4: a revoke_teacher(u) that takes effect removes only the row (u, teacher)
\* and clears the elevated flag of u only; an admin row of u and the rows and
\* flags of the other users stay; and revoking right after a grant that took
\* effect gives back the role table from before the grant.
C4_RevokeTeacherOnlyTeacherRow ==
    [][\A c \in Callers, u \in Users :
         /\ (last'.op = "revoke_teacher" /\ revoke_teacher(c, u)
               /\ last'.result = "ok") =>
              /\ special_roles' = special_roles \ {<<u, "teacher">>}
              /\ (<<u, "admin">> \in special_roles') = (<<u, "admin">> \in special_roles)
              /\ ~is_super_admin'[u]
              /\ \A v \in Users \ {u} :
                   /\ is_super_admin'[v] = is_super_admin[v]
                   /\ RolesOf(special_roles', v) = RolesOf(special_roles, v)
         /\ (last'.op = "grant_teacher" /\ grant_teacher(c, u)
               /\ last'.result = "ok") =>
              revoke_teacher_roles(special_roles', u) = special_roles]_vars

\* a teacher row of an admin was revoked
C4_Witness ==
    /\ last.op = "revoke_teacher"
    /\ last.result = "ok"
    /\ last.rows = 1
    /\ <<last.arg, "admin">> \in special_roles
    /\ \E v \in Users \ {last.arg} : is_super_admin[v] /\ <<v, "teacher">> \in special_roles

\* the callers the role API is meant to serve
RoleApiAuthorized(c) ==
    has_any_role(c, {"admin", "teacher"}) \/ c = postgres

\* C5: grant_teacher and revoke_teacher take effect exactly for a caller who
\* holds admin or teacher or is the system principal; for every other caller
\* they raise Unauthorized and leave role table and flags unchanged.
C5_RoleApiGate ==
    [][\A c \in Callers, u \in Users :
         (/\ last'.op \in {"grant_teacher", "revoke_teacher"}
          /\ grant_teacher(c, u) \/ revoke_teacher(c, u)) =>
           IF RoleApiAuthorized(c)
           THEN last'.result # "Unauthorized"
           ELSE /\ last'.result = "Unauthorized"
                /\ special_roles' = special_roles
                /\ is_super_admin' = is_super_admin]_vars

\* C6: a denied operation ends in Unauthorized; revoke_role of an existing role
\* row by a caller who is not admin (and not the system principal) reports
\* Unauthorized instead of returning normally with nothing deleted.
C6_DeniedRevokeRoleUnauthorized ==
    [][\A c \in Callers, u \in Users, r \in special_role :
         (/\ last'.op = "revoke_role"
          /\ revoke_role(c, u, r)
          /\ <<u, r>> \in special_roles
          /\ c # postgres
          /\ ~has_role(c, "admin")) =>
           last'.result = "Unauthorized"]_vars

\* C7: grant_reward changes cash only for a caller who holds teacher or is the
\* system principal; every other caller, one holding only admin included, gets
\* Unauthorized and the cash of every depot stays.
C7_RewardNeedsTeacher ==
    [][\A c \in Callers, d \in DepotArgs, a \in Amounts :
         (last'.op = "grant_reward" /\ last'.caller = c /\ grant_reward(c, d, a)) =>
           IF has_role(c, "teacher") \/ c = postgres
           THEN last'.result = "ok"
           ELSE last'.result = "Unauthorized" /\ depots' = depots]_vars

\* an admin without the teacher role was refused
C7_Witness ==
    /\ last.op = "grant_reward"
    /\ last.result = "Unauthorized"
    /\ has_role(last.caller, "admin")
    /\ ~has_role(last.caller, "teacher")
    /\ last.arg \in DOMAIN depots

\* C9: a teacher's grant_reward(d, a) on an existing depot sets its cash to the
\* old cash plus a, whatever the sign of a and of the result.
C9_RewardAddsAmount ==
    [][\A c \in Callers, d \in DepotArgs, a \in Amounts :
         (/\ has_role(c, "teacher")
          /\ d \in DOMAIN depots
          /\ last'.op = "grant_reward"
          /\ last'.caller = c
          /\ grant_reward(c, d, a)) =>
           /\ last'.result = "ok"
           /\ depots'[d].cash = depots[d].cash + a]_vars

\* a teacher's reward left a depot with negative cash
C9_Witness ==
    /\ last.op = "grant_reward"
    /\ last.result = "ok"
    /\ has_role(last.caller, "teacher")
    /\ last.arg \in DOMAIN depots
    /\ depots[last.arg].cash < 0

\* C8: change_budget by a caller without the teacher role, a member of the depot
\* included, fails and leaves every budget row as it was, whether or not the
\* depot already has a budget row.
C8_BudgetNeedsTeacher ==
    [][\A c \in Callers \ {postgres}, d \in DepotArgs, b \in Budgets :
         (change_budget(c, d, b) /\ ~has_role(c, "teacher")) =>
           /\ last'.result \notin {"ok"}
           /\ savings_plans_budget' = savings_plans_budget]_vars

\* a member without the teacher role was refused on a depot that has a budget
\* row, while another depot has none
C8_Witness ==
    /\ last.op = "change_budget"
    /\ last.result = "rls_violation"
    /\ last.arg \in DOMAIN savings_plans_budget
    /\ last.caller \in depots[last.arg].users
    /\ ~has_role(last.caller, "teacher")
    /\ \E d \in DOMAIN depots : d \notin DOMAIN savings_plans_budget

\* the per-month expenses of a depot's plans, 0 for no plan
RECURSIVE TotalPerMonth(_)
TotalPerMonth(plans) ==
    IF plans = {}
    THEN 0
    ELSE LET p == CHOOSE x \in plans : TRUE
         IN  p.worth * sp_to_per_month(p.period) + TotalPerMonth(plans \ {p})

\* C10: for every depot with a budget row the overview reports
\* remaining_budget = budget - sum of worth x per-month factor over the depot's
\* savings plans, for any number of plans, none included (then the budget).
C10_RemainingBudget ==
    \A row \in savings_plans_budget_overview :
        row.remaining_budget =
            Num(row.budget * PerMonthDen - TotalPerMonth(joined_plans(row.depot_id)))

\* the depots whose user set contains c
OwnDepots(c) == {d \in DOMAIN depots : c \in depots[d].users}

\* C11: get_depot_overview never hands a caller who holds neither admin nor
\* teacher a row of a depot whose user set does not contain the caller, and
\* hands that caller the rows of the caller's own depots.
C11_DepotOverviewOwnRowsOnly ==
    [][\A c \in Users :
         (/\ NoSpecialRole(c)
          /\ last'.op = "get_depot_overview"
          /\ get_depot_overview(c)) =>
           /\ get_depot_overview_result(c).ids \subseteq OwnDepots(c)
           /\ OwnDepots(c) \subseteq get_depot_overview_result(c).ids]_vars

\* C14: a teacher's grant_reward on a depot id that names no row is reported as
\* NotFound and changes no depot's cash.
C14_RewardMissingDepotNotFound ==
    [][\A c \in Callers, d \in DepotArgs, a \in Amounts :
         (/\ has_role(c, "teacher")
          /\ d \notin DOMAIN depots
          /\ last'.op = "grant_reward"
          /\ grant_reward(c, d, a)) =>
           /\ last'.result = "NotFound"
           /\ depots' = depots]_vars

\* C12: in the depot overview every depot's transaction_count is the number of
\* its transaction rows and its position_count the number of its position rows,
\* whatever the two numbers are; in the admin overview every user's depot,
\* position and transaction counts are the numbers of distinct depots that
\* contain the user and of the positions and transactions in those depots.
C12_OverviewCounts ==
    /\ \A d \in DOMAIN depots :
         /\ depot_overview_row(d).transaction_count
              = Len(SelectSeq(transactions, LAMBDA t : t.depot_id = d))
         /\ depot_overview_row(d).position_count
              = Cardinality({q \in positions : q.depot_id = d})
    /\ \A u \in Users :
         /\ admin_overview_row(u).depot_count
              = Cardinality({d \in DOMAIN depots : u \in depots[d].users})
         /\ admin_overview_row(u).position_count
              = Cardinality({q \in positions : u \in depots[q.depot_id].users})
         /\ admin_overview_row(u).transaction_count
              = Len(SelectSeq(transactions, LAMBDA t : u \in depots[t.depot_id].users))

\* a teacher has been handed the depot overview while one depot has a
\* transaction and two positions (two joined rows) and another depot has none
C12_Witness ==
    /\ last.op = "get_depot_overview"
    /\ last.result = "ok"
    /\ \E d \in DOMAIN depots :
         /\ Cardinality(transactions_of(d)) = 1
         /\ Cardinality(positions_of(d)) = 2
         /\ Cardinality(depot_overview_join(d)) = 2
    /\ \E d \in DOMAIN depots :
         /\ depot_overview_row(d).transaction_count = 0
         /\ depot_overview_row(d).position_count = 0

\* C13: when the depot shown has no valuation snapshot at or before the horizon
\* of a delta, what the dashboard page passes on for that delta differs from
\* what it passes on for a delta of 0.
C13_UnavailableDeltaNotZero ==
    [][\A c \in Users, d \in DepotIds :
         (last'.op = "Page" /\ last'.result = "ok" /\ Page(c, d)) =>
           /\ diff(d, "diff_1d") = NULL => displays(d).Heute # Num(0)
           /\ diff(d, "diff_1m") = NULL => displays(d).Monat # Num(0)
           /\ diff(d, "diff_1y") = NULL => displays(d).Jahr # Num(0)]_vars

\* the rows that belong to depot d, table by table
RowsOf(d) ==
    [depot |-> IF d \in DOMAIN depots THEN {depots[d]} ELSE {},
     budget |-> IF d \in DOMAIN savings_plans_budget
                THEN {savings_plans_budget[d]} ELSE {},
     positions |-> {q \in positions : q.depot_id = d},
     transactions |-> SelectSeq(transactions, LAMBDA t : t.depot_id = d),
     savings_plans |-> {sp \in savings_plans : sp.depot_id = d},
     values |-> {v \in values : v.depot_id = d}]

NoRows ==
    [depot |-> {}, budget |-> {}, positions |-> {}, transactions |-> <<>>,
     savings_plans |-> {}, values |-> {}]

\* C15: after a deleteDepot(d) that deleted the depot no row that belongs to d
\* remains (budget row, positions, transactions, savings plans, snapshots), the
\* queries for them yield empty results, and the rows of every other depot are
\* as they were.
C15_DeleteDepotCascades ==
    [][\A c \in Callers, d \in DepotArgs :
         (last'.op = "deleteDepot" /\ last'.rows = 1 /\ deleteDepot(c, d)) =>
           /\ RowsOf(d)' = NoRows
           /\ joined_plans(d)' = {}
           /\ positions_of(d)' = {}
           /\ transactions_of(d)' = {}
           /\ \A e \in DepotIds \ {d} : RowsOf(e)' = RowsOf(e)]_vars

\* a teacher deleted depot 1 and depot 2 still has its budget row, a position,
\* a transaction, a savings plan and a snapshot
C15_Witness ==
    /\ last.op = "deleteDepot"
    /\ last.caller = "u1"
    /\ last.arg = 1
    /\ last.rows = 1
    /\ RowsOf(1) = NoRows
    /\ RowsOf(2).depot # {}
    /\ RowsOf(2).budget # {}
    /\ RowsOf(2).positions # {}
    /\ RowsOf(2).transactions # <<>>
    /\ RowsOf(2).savings_plans # {}
    /\ RowsOf(2).values # {}

PrivilegedOps ==
    {"grant_reward", "change_budget", "grant_teacher", "revoke_teacher",
     "update_savings_plan", "delete_savings_plan"}

\* C16: no privileged operation (grant_reward, change_budget, grant_teacher,
\* revoke_teacher, savings-plan update or delete) changes a field of, or
\* removes, a transaction row that is already in the ledger; a teacher's SELECT
\* on the transactions or positions of a depot of others yields its rows, and
\* a teacher's INSERT, UPDATE or DELETE there changes neither table.
C16_LedgerRowsUntouched ==
    [][/\ last'.op \in PrivilegedOps =>
            /\ Len(transactions') >= Len(transactions)
            /\ \A i \in 1..Len(transactions) : transactions'[i] = transactions[i]
       /\ \A c \in Users, d \in DepotIds, t \in {"transactions", "positions"},
             cmd \in Commands :
            (last'.op = "dml" /\ has_role(c, "teacher") /\ teacher_dml(c, d, t, cmd)) =>
               /\ transactions' = transactions
               /\ positions' = positions
               /\ cmd = "SELECT" =>
                    /\ last'.result = "ok"
                    /\ last'.rows = IF t = "transactions"
                                    THEN Len(SelectSeq(transactions, LAMBDA x : x.depot_id = d))
                                    ELSE Cardinality({q \in positions : q.depot_id = d})]_vars

\* teacher u2 ran a statement on the rows of depot 1 while the ledger held a
\* row of depot 1, and a reward had been granted to depot 1 before
C16_Witness ==
    /\ last.op = "dml"
    /\ last.caller = "u2"
    /\ has_role("u2", "teacher")
    /\ depots[1].cash > depots[1].cash_start
    /\ \E i \in 1..Len(transactions) : transactions[i].depot_id = 1

\* C17: whatever the interleaving of concurrent buys (of users or of the
\* scheduler) on one depot, the buys that succeed are covered by the cash the
\* depot had: its cash is cash_start minus what the ledger holds for it and is
\* never below zero, so that of two buys the cash covers only one of at most
\* one succeeds.
C17_ConcurrentBuysAtomic ==
    \A d \in DOMAIN depots :
      /\ depots[d].cash >= 0
      /\ depots[d].cash = depots[d].cash_start + LedgerSum(d, Len(transactions))

\* the scheduler's buy on depot 1 was refused after a user's buy took all the
\* cash of depot 1, while another user's buy on depot 1 still waits
C17_Witness ==
    /\ last = Ret("buy", "scheduler", 1, "InsufficientCash", 0)
    /\ transactions = <<[depot_id |-> 1, cash_delta |-> -CashStart]>>
    /\ depots[1].cash = 0
    /\ buys["s2"].pc = "wait"
    /\ buys["s2"].depot_id = 1

\* C20: a sell of more units than the depot holds of the asset fails with
\* InsufficientPosition, appends nothing to the ledger and leaves cash and
\* positions as they were; no position ever has a negative quantity.
C20_SellMoreThanHeld ==
    [][/\ \A c \in Users, d \in DepotIds, units \in 1..(MaxAmount + 1) :
            (last'.op = "sell" /\ units > held(d) /\ sell(c, d, units)) =>
               /\ last'.result = "InsufficientPosition"
               /\ transactions' = transactions
               /\ depots' = depots
               /\ positions' = positions
       /\ \A q \in positions \cup positions' : q.amount >= 0]_vars

\* a member's sell of more units than depot 2 holds was refused after a sell
\* of a unit that depot 1 held went through
C20_Witness ==
    /\ last.op = "sell"
    /\ last.arg = 2
    /\ last.result = "InsufficientPosition"
    /\ held(2) > 0
    /\ Len(transactions) = 1
    /\ transactions[1].depot_id = 1

\* C21: a call of grant_role, revoke_role, grant_teacher or revoke_teacher by a
\* caller who holds no role and is not the system principal changes no user's
\* role rows and no user's elevated flag.
C21_NoRoleCallerChangesNoRole ==
    [][(/\ last'.op \in {"grant_role", "revoke_role", "grant_teacher", "revoke_teacher"}
        /\ NoSpecialRole(last'.caller)) =>
          /\ special_roles' = special_roles
          /\ is_super_admin' = is_super_admin]_vars

\* C22: whatever the interleaving of the grant_reward calls of teachers, each
\* call that commits raises the committed cash of its depot by exactly its
\* amount and leaves the cash of every other depot as it is, and no step before
\* the commit changes any cash; so the final cash of a depot is its initial
\* cash plus the sum of the amounts granted to it.
C22_ConcurrentRewardsAddUp ==
    [][\A s \in WebSessions :
         /\ (calls[s].pc = "commit" /\ grant_reward_commit(s)) =>
               \A e \in DOMAIN depots :
                 depots'[e] = [depots[e] EXCEPT
                                 !.cash = @ + (IF e = calls[s].depot_id
                                               THEN calls[s].arg ELSE 0)]
         /\ (calls[s].pc = "update" /\ grant_reward_write(s)) => depots' = depots]_vars

\* a reward on depot 1 has committed, and now one session has written the row
\* of depot 1 while the other waits to write the same row
C22_Witness ==
    /\ last.op = "grant_reward"
    /\ last.result = "ok"
    /\ depots[1].cash # depots[1].cash_start
    /\ calls["s1"].pc = "commit"
    /\ calls["s2"].pc = "update"
    /\ calls["s1"].depot_id = 1
    /\ calls["s2"].depot_id = 1

\* C23: no INSERT into the role table succeeds for a (user, role) the table
\* already holds, so it never holds two rows for one pair; grant_teacher on a
\* user who holds the teacher role ends in an error and leaves the role table
\* and the elevated flag of every user as they were.
C23_NoDuplicateRoleRow ==
    [][\A c \in Callers, u \in Users :
         /\ (/\ last'.op = "grant_teacher"
             /\ <<u, "teacher">> \in special_roles
             /\ grant_teacher(c, u)) =>
               /\ last'.result \in {"unique_violation", "Unauthorized"}
               /\ special_roles' = special_roles
               /\ is_super_admin' = is_super_admin
         /\ \A r \in special_role :
              (/\ last'.op = "grant_role"
               /\ last'.result = "ok"
               /\ grant_role(c, u, r)) => <<u, r>> \notin special_roles]_vars

\* a teacher's grant_teacher hit the primary key while the flag of some user
\* was not set: the UPDATE of the flags did not take effect
C23_Witness ==
    /\ last.op = "grant_teacher"
    /\ last.result = "unique_violation"
    /\ has_role(last.caller, "teacher")
    /\ <<last.arg, "teacher">> \in special_roles
    /\ \E v \in Users : ~is_super_admin[v]

\* the budget table with the row of depot d set to b and every other row kept
BudgetWith(d, b) ==
    [x \in DOMAIN savings_plans_budget \cup {d} |->
       IF x = d THEN b ELSE savings_plans_budget[x]]

\* C24: whatever the interleaving of change_budget calls and depot creations,
\* each change_budget(d, b) that commits leaves depot d with the one budget row
\* (d, b) and every other depot's row as it was (a repeated one changes
\* nothing), each depot creation adds only the row of the new depot, and no
\* other step changes the budget table; so every depot has at most one budget
\* row, holding the budget of the last committed change for it.
C24_BudgetRowLastCommitted ==
    [][/\ \A s \in WebSessions :
            (calls[s].pc = "budget_commit" /\ change_budget_commit(s)) =>
               /\ savings_plans_budget' = BudgetWith(calls[s].depot_id, calls[s].arg)
               /\ (/\ calls[s].depot_id \in DOMAIN savings_plans_budget
                   /\ savings_plans_budget[calls[s].depot_id] = calls[s].arg) =>
                      savings_plans_budget' = savings_plans_budget
       /\ \A s \in WebSessions, c \in Users, d \in DepotArgs, b \in Budgets :
            (calls[s].pc = "idle" /\ change_budget_write(s, c, d, b)) =>
               savings_plans_budget' = savings_plans_budget
       /\ last'.op = "create_depot" =>
            \A x \in DOMAIN savings_plans_budget :
               /\ x \in DOMAIN savings_plans_budget'
               /\ savings_plans_budget'[x] = savings_plans_budget[x]]_vars

\* teacher u1's change of the budget of depot 1 to 0 has committed and no call
\* is in flight, while depot 2, created with a start budget of 250, has its row
C24_Witness ==
    /\ last = Ret("change_budget", "u1", 1, "ok", 1)
    /\ savings_plans_budget[1] = 0
    /\ \A s \in WebSessions : calls[s].pc = "idle"
    /\ 2 \in DOMAIN savings_plans_budget
    /\ savings_plans_budget[2] = 250

\* C25: every depot insertion creates the budget row of the new depot in the
\* same step, with the configured monthly start budget, or with 0 when none is
\* configured; no depot is without a budget row afterwards.
C25_DepotInsertCreatesBudget ==
    [][\A c \in Users, d \in DepotArgs, setting \in Settings :
         (last'.op = "create_depot" /\ last'.arg = d /\ create_depot(c, d, setting)) =>
            /\ last'.result = "ok"
            /\ d \in DOMAIN depots'
            /\ d \in DOMAIN savings_plans_budget'
            /\ savings_plans_budget'[d] = coalesce0(setting)
            /\ \A x \in DOMAIN depots' \ DOMAIN depots :
                 x \in DOMAIN savings_plans_budget']_vars

\* C26: grant_reward(d, a) changes nothing but the cash of depot d: cash_start
\* and the users of d, every other depot, and all transactions, positions,
\* budgets, savings plans, snapshots and role rows stay as they are.
C26_RewardChangesOnlyCash ==
    [][\A c \in Callers, d \in DepotArgs, a \in Amounts \cup {1} :
         (last'.op = "grant_reward" /\ last'.arg = d /\ grant_reward(c, d, a)) =>
            /\ DOMAIN depots' = DOMAIN depots
            /\ \A e \in DOMAIN depots :
                 /\ depots'[e].cash_start = depots[e].cash_start
                 /\ depots'[e].users = depots[e].users
                 /\ e # d => depots'[e] = depots[e]
            /\ UNCHANGED <<transactions, positions, values, savings_plans_budget,
                           savings_plans, special_roles, is_super_admin>>]_vars

\* a teacher's reward raised the cash of depot 1 while the ledger, the
\* positions, the budget table and the plans hold rows and depot 2 has the
\* cash it started with
C26_Witness ==
    /\ last.op = "grant_reward"
    /\ last.result = "ok"
    /\ last.arg = 1
    /\ depots[1].cash > depots[1].cash_start
    /\ depots[2].cash = depots[2].cash_start
    /\ transactions # <<>>
    /\ positions # {}
    /\ savings_plans # {}
    /\ 1 \in DOMAIN savings_plans_budget

\* C27: whenever a table mutation (change budget, delete depot, grant reward,
\* update user, grant or revoke teacher, ban, unban, change password, delete
\* user) triggers a page refresh, the mutation's promise has settled already
C27_RefreshAfterSettled ==
    ui.refresh.for # NoMutation => ui.refresh.settled

\* C28: saving a depot row issues changeBudget(depot, v) exactly when the row
\* has a depot id and the edited budget v is a number other than 0, and issues
\* nothing otherwise; with a depot id the row leaves edit mode and editedData
\* is emptied in every case
C28_BudgetSaveCallsForNonZero ==
    [][\A row \in DepotTableRows :
         (last'.op = "DepotTable.handleSave" /\ DepotTable_handleSave(row)) =>
           LET id == row.original.id
               v == ui.editedData.monthly_budget
           IN  /\ ui'.pending \ ui.pending =
                    IF id.t = "number" /\ v.t = "number" /\ v.n # 0
                    THEN {Mutation("changeBudget", <<id, v>>, "handleError")}
                    ELSE {}
               /\ id.t = "number" =>
                    ui'.editingRowId = "null" /\ ui'.editedData = NoEdits]_vars

\* a budget save that issued a call and closed the row
C28_Witness ==
    /\ last.op = "DepotTable.handleSave"
    /\ last.rows = 1
    /\ \E m \in ui.pending : m.fn = "changeBudget" /\ m.args[2] = JsNum(200)
    /\ ui.editingRowId = "null"
    /\ ui.editedData = NoEdits

\* C29: saving a savings plan row calls update_savings_plan only when id, asset,
\* worth and frequency are all there, each taken from the edited field when it
\* is set and from the row otherwise (an edited worth of 0 or of no number gives
\* the row's worth); the row leaves edit mode and the page refreshes only when
\* the call succeeded, and after a validation or rpc error the row is still
\* edited with its edited data
C29_PlanSaveValidatesAndKeepsEdits ==
    [][/\ \A row \in PlanTableRows :
            (last'.op = "SavingsPlanTable.handleSave"
               /\ SavingsPlanTable_handleSave(row)) =>
              LET e == ui.editedData
                  o == row.original
                  present(x) == x.t \in {"number", "string"} /\ x # JsNum(0)
                                  /\ x # JsStr("")
                  typed == IF e.worth_string.t = "string"
                           THEN parseFloat(e.worth_string.s)
                           ELSE NaN
                  asset == IF present(e.asset_id) THEN e.asset_id ELSE o.asset_id
                  worth == IF typed.t = "number" /\ typed.n # 0
                           THEN typed ELSE o.worth
                  frequency == IF present(e.frequency)
                               THEN e.frequency ELSE o.frequency
              IN  IF present(o.id) /\ present(asset) /\ present(worth)
                       /\ present(frequency)
                  THEN /\ ui'.pending \ ui.pending =
                            {Mutation("update_savings_plan",
                                      <<o.id, asset, worth, frequency>>,
                                      "handleSave")}
                       /\ ui'.refresh = ui.refresh
                       /\ ui'.editingRowId = ui.editingRowId
                       /\ ui'.editedData = ui.editedData
                  ELSE /\ ui' = ui
                       /\ last'.result \notin {"ok", "await"}
      /\ \A m \in ui.pending, error \in RpcErrors :
            (last'.op = "SavingsPlanTable.handleSave"
               /\ SavingsPlanTable_handleSave_resume(m, error)) =>
              IF error = null
              THEN /\ ui'.editingRowId = "null"
                   /\ ui'.editedData = NoEdits
                   /\ ui'.refresh = [for |-> m, settled |-> TRUE]
              ELSE /\ ui'.editingRowId = ui.editingRowId
                   /\ ui'.editedData = ui.editedData
                   /\ ui'.refresh = ui.refresh]_vars

\* a save that succeeded with the row's own worth, and refreshed the page
C29_Witness ==
    /\ last.op = "SavingsPlanTable.handleSave"
    /\ last.result = "ok"
    /\ ui.refresh.for.fn = "update_savings_plan"
    /\ ui.refresh.for.args[3] = JsNum(100)
    /\ ui.refresh.for.args[2] = JsNum(8)
    /\ ui.editingRowId = "null"

====
